---- MODULE Spec2Model ----
(***************************************************************************)
(* Model of userfm.callbacks.ModelCheckpoint (the raw/EMA checkpoint pair) *)
(* and of userfm.diffusion.JaxLightning (setup, training/validation/       *)
(* predict steps, the loss's time sampling and random-key handling).       *)
(***************************************************************************)
EXTENDS Integers, Sequences, FiniteSets, TLC

\* ------------------------------------------------------------------ bounds
\* calls of _save_checkpoint/_remove_checkpoint started over all processes
MaxCalls == 4
\* training steps one process takes
MaxGlobalStep == 1
\* training/validation/predict steps one engine takes in the engine specification
MaxSteps == 2
\* setup calls one engine receives
MaxSetups == 2
\* batch sizes 1..MaxBatch and offsets u0 = a/Grid, a in 0..Grid-1
MaxBatch == 5
Grid == 12

\* ------------------------------------------------------- values and trees
None == [None |-> TRUE]

RECURSIVE GCD(_, _)
GCD(a, b) == IF b = 0 THEN a ELSE GCD(b, a % b)

Abs(x) == IF x < 0 THEN -x ELSE x

\* an exact number n/d, d > 0, in lowest terms
Rat(n, d) ==
    LET g == GCD(Abs(n), d)
    IN  IF g = 0 THEN [n |-> 0, d |-> 1] ELSE [n |-> n \div g, d |-> d \div g]

RatAdd(x, y) == Rat(x.n * y.d + y.n * x.d, x.d * y.d)
RatSub(x, y) == Rat(x.n * y.d - y.n * x.d, x.d * y.d)
RatDivInt(x, k) == Rat(x.n, x.d * k)

\* cfg.model.architecture.epochs / cfg.model.architecture.ema_folding_count
Epochs == 4
EmaFoldingCount == 2
ema_ts == Epochs \div EmaFoldingCount

\* the parameter trees model.init can produce: layer name -> tensor shape
ModelShapes == { [w |-> <<2, 2>>], [w |-> <<2, 2>>, b |-> <<2>>] }

\* a tensor: its shape and the (common) value of its elements
Leaf(shape, val) == [shape |-> shape, val |-> val]

\* the element-wise rule of step: ema + (p - ema) / ema_ts
ema_update(p, ema) == RatAdd(ema, RatDivInt(RatSub(p, ema), ema_ts))

\* jax.tree.map(ema_update, params, params_ema): the structure is that of the
\* first tree, every leaf is combined with the leaf of the same name
ema_map_drop(tree, other) ==
    [k \in (DOMAIN tree) \ {"b"} |->
        Leaf(tree[k].shape, ema_update(tree[k].val, other[k].val))]

ema_map(tree, other) ==
    [k \in DOMAIN tree |-> Leaf(tree[k].shape, ema_update(tree[k].val, other[k].val))]

\* optax.apply_updates(params, updates): leaf-wise params + updates
apply_updates(tree, updates) ==
    [k \in DOMAIN tree |-> Leaf(tree[k].shape, RatAdd(tree[k].val, updates[k].val))]

\* model.init(key, x, t, train, cond): a tree of the model's layers; the values
\* drawn from the key are an input v
model_init(key, shapes, v) == [k \in DOMAIN shapes |-> Leaf(shapes[k], Rat(v, 1))]

InitValues == {0, 1}

\* the parameter deltas optimizer.update can return for one step
Deltas == {-1, 1}

\* optimizer.init(params), optimizer.update(grads, opt_state)
optimizer_init(tree) == [count |-> 0]
optimizer_update(grads, state) == <<grads, [count |-> state.count + 1]>>

\* ------------------------------------------------------------ random keys
\* a key is the path of splits from the root key: <<>> is the root
RootKey == <<>>

split_reuse(key) == <<key, Append(key, 1)>>

\* jax.random.split(key): two fresh keys
split(key) == <<Append(key, 0), Append(key, 1)>>

\* what a handler does with a key: one entry of the per-process key log
Ev(op, key, handler, n, phase) ==
    [op |-> op, key |-> key, handler |-> handler, n |-> n, phase |-> phase]


\* the four key events of one loss(key, ...) evaluation
LossEvents(key, handler, n, phase) ==
    LET k1 == split(key)
        key_time == k1[2]
        k2 == split(k1[1])
        key_noise == k2[2]
    IN  << Ev("split", key, handler, n, phase),
           Ev("uniform", key_time, handler, n, phase),
           Ev("split", k1[1], handler, n, phase),
           Ev("noise_input", key_noise, handler, n, phase) >>

\* ---------------------------------------------------------------- state
Procs == {0, 1}
Primary == 0

\* lifecycle stage names a caller may pass to setup
Stages == {"fit", "validate", "val", "test", "predict"}

VARIABLES
    cfg,            \* configuration fixed at construction
    key,            \* self.key of each process's JaxLightning
    params,         \* self.params, None before setup('fit')
    params_ema,     \* self.params_ema
    opt_state,      \* self.opt_state, None before configure_optimizers
    global_step,    \* trainer.global_step
    steps,          \* training/validation/predict steps taken
    keyLog,         \* every split and draw made, in order
    setupLog        \* every setup call: its stage and what it raised

engineVars == <<cfg, key, params, params_ema, opt_state, global_step, steps,
                keyLog, setupLog>>

Cfgs ==
    [shapes : ModelShapes, ckpt_monitor_ema : BOOLEAN,
     predict_sample_event_conditioned : BOOLEAN]

\* the state after JaxLightning.__init__
InitEngine ==
    /\ cfg \in Cfgs
    /\ key = [p \in Procs |-> RootKey]
    /\ params = [p \in Procs |-> None]
    /\ params_ema = [p \in Procs |-> None]
    /\ opt_state = [p \in Procs |-> None]
    /\ global_step = [p \in Procs |-> 0]
    /\ steps = [p \in Procs |-> 0]
    /\ keyLog = [p \in Procs |-> <<>>]
    /\ setupLog = [p \in Procs |-> <<>>]

\* JaxLightning.setup(stage)
setup(proc, stage) ==
    /\ Len(setupLog[proc]) < MaxSetups
    /\ IF stage = "fit"
       THEN \E v \in InitValues :
            LET ks == split(key[proc])
                key_train == ks[2]
                p == model_init(key_train, cfg.shapes, v)
            IN  /\ key' = [key EXCEPT ![proc] = ks[1]]
                /\ params' = [params EXCEPT ![proc] = p]
                /\ params_ema' = [params_ema EXCEPT ![proc] = p]
                /\ keyLog' = [keyLog EXCEPT ![proc] = @ \o
                       << Ev("split", key[proc], "setup", 0, "setup"),
                          Ev("model_init", key_train, "setup", 0, "setup") >>]
                /\ setupLog' = [setupLog EXCEPT ![proc] =
                       Append(@, [stage |-> stage, raised |-> "none"])]
       ELSE IF stage = "val" \/ stage = "predict"
       THEN /\ setupLog' = [setupLog EXCEPT ![proc] =
                   Append(@, [stage |-> stage, raised |-> "none"])]
            /\ UNCHANGED <<key, params, params_ema, keyLog>>
       ELSE /\ setupLog' = [setupLog EXCEPT ![proc] =
                   Append(@, [stage |-> stage, raised |-> "ValueError"])]
            /\ UNCHANGED <<key, params, params_ema, keyLog>>
    /\ UNCHANGED <<cfg, opt_state, global_step, steps>>

\* JaxLightning.configure_optimizers()
configure_optimizers(proc) ==
    /\ params[proc] # None
    /\ opt_state[proc] = None
    /\ opt_state' = [opt_state EXCEPT ![proc] = optimizer_init(params[proc])]
    /\ UNCHANGED <<cfg, key, params, params_ema, global_step, steps, keyLog, setupLog>>

\* JaxLightning.step(key, batch, cond, params, params_ema, opt_state) for the
\* gradient whose optimizer update is delta on every leaf
step(p, p_ema, state, delta) ==
    LET grads == [k \in DOMAIN p |-> Leaf(p[k].shape, Rat(delta, 1))]
        upd == optimizer_update(grads, state)
        new_params == apply_updates(p, upd[1])
        new_ema == ema_map(new_params, p_ema)
    IN  [params |-> new_params, params_ema |-> new_ema, opt_state |-> upd[2]]

\* JaxLightning.training_step(batch, batch_idx), delta the optimizer's update for
\* this batch
training_step(proc, delta) ==
    /\ params[proc] # None
    /\ opt_state[proc] # None
    /\  LET ks == split(key[proc])
            key_train == ks[2]
            n == steps[proc] + 1
            r == step(params[proc], params_ema[proc], opt_state[proc], delta)
        IN  /\ key' = [key EXCEPT ![proc] = ks[1]]
            /\ params' = [params EXCEPT ![proc] = r.params]
            /\ params_ema' = [params_ema EXCEPT ![proc] = r.params_ema]
            /\ opt_state' = [opt_state EXCEPT ![proc] = r.opt_state]
            /\ keyLog' = [keyLog EXCEPT ![proc] =
                   Append(@, Ev("split", key[proc], "training_step", n, "training_step"))
                   \o LossEvents(key_train, "training_step", n, "step")
                   \o LossEvents(key_train, "training_step", n, "loss_ema")]
            /\ steps' = [steps EXCEPT ![proc] = n]
    /\ global_step' = [global_step EXCEPT ![proc] = @ + 1]
    /\ UNCHANGED <<cfg, setupLog>>

\* JaxLightning.validation_step(batch, batch_idx): the key is split in every
\* branch; only the VAL_RELATIVE_ERROR_EMA branch samples with key_val, the other
\* two branches return a value and change nothing
validation_step(proc) ==
    /\ params_ema[proc] # None
    /\ LET ks == split(key[proc])
           key_val == ks[2]
           n == steps[proc] + 1
       IN  /\ key' = [key EXCEPT ![proc] = ks[1]]
           /\ steps' = [steps EXCEPT ![proc] = n]
           /\ IF cfg.ckpt_monitor_ema
              THEN keyLog' = [keyLog EXCEPT ![proc] = @ \o
                       << Ev("split", key[proc], "validation_step", n, "validation_step"),
                          Ev("sde_sample", key_val, "validation_step", n, "sample") >>]
              ELSE keyLog' = [keyLog EXCEPT ![proc] =
                       Append(@, Ev("split", key[proc], "validation_step", n,
                                    "validation_step"))]
    /\ UNCHANGED <<cfg, params, params_ema, opt_state, global_step, setupLog>>

\* JaxLightning.predict_step(batch, batch_idx): key_pred goes to
\* samplers.sde_sample, directly or through self.sample
predict_step(proc) ==
    /\ params_ema[proc] # None
    /\ LET ks == split(key[proc])
           key_pred == ks[2]
           n == steps[proc] + 1
       IN  /\ key' = [key EXCEPT ![proc] = ks[1]]
           /\ steps' = [steps EXCEPT ![proc] = n]
           /\ IF cfg.predict_sample_event_conditioned
              THEN keyLog' = [keyLog EXCEPT ![proc] = @ \o
                       << Ev("split", key[proc], "predict_step", n, "predict_step"),
                          Ev("sde_sample", key_pred, "predict_step", n, "event_scores") >>]
              ELSE keyLog' = [keyLog EXCEPT ![proc] = @ \o
                       << Ev("split", key[proc], "predict_step", n, "predict_step"),
                          Ev("sde_sample", key_pred, "predict_step", n, "sample") >>]
    /\ UNCHANGED <<cfg, params, params_ema, opt_state, global_step, setupLog>>

\* ------------------------------------------------------------ checkpoints
\* a file name is a sequence of pieces; "." separates the suffix
Max(S) == CHOOSE x \in S : \A y \in S : y <= x

\* pathlib's PurePath.stem: the name without its last suffix
Stem(name) ==
    LET dots == {i \in 1..Len(name) : name[i] = "."}
    IN  IF dots # {} /\ 1 < Max(dots) /\ Max(dots) < Len(name)
        THEN SubSeq(name, 1, Max(dots) - 1)
        ELSE name

Path(parent, name) == [parent |-> parent, name |-> name]

\* ModelCheckpoint.get_checkpoint_directories(filepath): <<raw, ema>>
get_checkpoint_directories_swapped(filepath) ==
    << Path(filepath.parent, Stem(filepath.name) \o <<"_ema">>),
       Path(filepath.parent, Stem(filepath.name)) >>

get_checkpoint_directories(filepath) ==
    << Path(filepath.parent, Stem(filepath.name)),
       Path(filepath.parent, Stem(filepath.name) \o <<"_ema">>) >>

\* the checkpoint file paths the trainer asks for
FilePaths ==
    { Path("ckpts", <<"a", ".", "ckpt">>),
      Path("ckpts", <<"a", "_ema", ".", "ckpt">>),
      Path("ckpts", <<"b", ".", "ckpt">>) }

Dirs == UNION { {get_checkpoint_directories(f)[1], get_checkpoint_directories(f)[2]} :
                f \in FilePaths }

\* ModelCheckpoint's initial _last_checkpoint_saved
NoPath == Path("", <<>>)

\* trainer.loggers, trainer.is_global_zero
loggers == <<"tensorboard", "csv">>
is_global_zero_all(proc) == TRUE
is_global_zero(proc) == proc = Primary

VARIABLES
    fs,                         \* directory -> the tree stored in it, or None
    last_global_step_saved,     \* self._last_global_step_saved
    last_checkpoint_saved,      \* self._last_checkpoint_saved
    logger_calls,               \* per logger: after_save_checkpoint calls received
    logger_seen,                \* per logger: the record seen through the last proxy
    lastCall,                   \* the save/remove call that ended last
    calls                       \* save/remove calls made so far

ckptVars == <<fs, last_global_step_saved, last_checkpoint_saved,
              logger_calls, logger_seen, lastCall, calls>>

VARIABLES
    x_batch,        \* x_data.shape[0] of the batch given to loss
    u0,             \* the offset jax.random.uniform(key_time) drew
    u               \* the time fractions loss built, <<>> before it ran

timeVars == <<x_batch, u0, u>>

vars == <<cfg, key, params, params_ema, opt_state, global_step, steps, keyLog, setupLog,
          fs, last_global_step_saved, last_checkpoint_saved,
          logger_calls, logger_seen, lastCall, calls, x_batch, u0, u>>

\* jnp.linspace(0, 1, n): n points from 0 to 1, both ends included
linspace01(n) == [i \in 1..n |-> IF n = 1 THEN Rat(0, 1) ELSE Rat(i - 1, n - 1)]

\* jnp.remainder(x, 1) of x >= 0
remainder1(x) == Rat(x.n % x.d, x.d)

\* loss, lines 153-154: the time fractions of a batch of n examples
time_fractions(offset, n) ==
    [i \in 1..n |-> remainder1(RatAdd(offset, linspace01(n)[i]))]

InitNoLoss ==
    /\ x_batch = 1
    /\ u0 = Rat(0, 1)
    /\ u = <<>>

\* a batch and a uniform draw, before loss runs
InitLoss ==
    /\ x_batch \in 1..MaxBatch
    /\ u0 \in {Rat(a, Grid) : a \in 0..(Grid - 1)}
    /\ u = <<>>

\* JaxLightning.loss, lines 152-154: the uniform draw and the time fractions
loss_times ==
    /\ u = <<>>
    /\ u' = time_fractions(u0, x_batch)
    /\ UNCHANGED <<x_batch, u0>>
    /\ UNCHANGED engineVars
    /\ UNCHANGED ckptVars

Loggers == {loggers[i] : i \in 1..Len(loggers)}

\* the state after ModelCheckpoint.__init__, on an empty store
InitCkpt ==
    /\ fs = [d \in Dirs |-> None]
    /\ last_global_step_saved = [p \in Procs |-> 0]
    /\ last_checkpoint_saved = [p \in Procs |-> NoPath]
    /\ logger_calls = [p \in Procs |-> [l \in Loggers |-> 0]]
    /\ logger_seen = [p \in Procs |-> [l \in Loggers |-> None]]
    /\ lastCall = [op |-> "none"]
    /\ calls = 0

\* orbax_checkpointer.save(directory, ckpt, force=True): replaces what is there
orbax_save(store, directory, ckpt) == [store EXCEPT ![directory] = ckpt]

\* shutil.rmtree(directory)
rmtree_parent(store, directory) ==
    [d \in DOMAIN store |-> IF d.parent = directory.parent THEN None ELSE store[d]]

rmtree(store, directory) == [store EXCEPT ![directory] = None]

\* whether both directories of filepath's pair exist when a call starts
had_pair(store, filepath) ==
    \A j \in 1..2 : store[get_checkpoint_directories(filepath)[j]] # None

\* the loop of _save_checkpoint, lines 41-43, from its i-th pair on: the write
\* numbered fail raises and ends the loop (fail = 0: no write raises)
RECURSIVE save_loop(_, _, _, _, _)
save_loop(store, ckpts, directories, i, fail) ==
    IF i > Len(directories)
    THEN [fs |-> store, attempts |-> <<>>, raised |-> "none"]
    ELSE IF i = fail
    THEN [fs |-> store, attempts |-> <<directories[i]>>, raised |-> "OSError"]
    ELSE LET rest == save_loop(orbax_save(store, directories[i], ckpts[i]),
                               ckpts, directories, i + 1, fail)
         IN  [rest EXCEPT !.attempts = <<directories[i]>> \o @]

\* ModelCheckpoint._save_checkpoint(trainer, filepath)
save_checkpoint(proc, filepath, fail) ==
    /\ calls < MaxCalls
    /\ params[proc] # None
    /\ LET ckpts == <<params[proc], params_ema[proc]>>
           r == save_loop(fs, ckpts, get_checkpoint_directories(filepath), 1, fail)
       IN  /\ fs' = r.fs
           /\ lastCall' = [op |-> "save", proc |-> proc, filepath |-> filepath,
                           had |-> had_pair(fs, filepath),
                           attempts |-> r.attempts, raised |-> r.raised]
           /\ IF r.raised # "none"
              THEN UNCHANGED <<last_global_step_saved, last_checkpoint_saved,
                               logger_calls, logger_seen>>
              ELSE /\ last_global_step_saved' =
                          [last_global_step_saved EXCEPT ![proc] = global_step[proc]]
                   /\ last_checkpoint_saved' =
                          [last_checkpoint_saved EXCEPT ![proc] = filepath]
                   /\ IF is_global_zero(proc)
                      THEN /\ logger_calls' = [logger_calls EXCEPT ![proc] =
                                  [l \in Loggers |-> @[l] + 1]]
                           /\ logger_seen' = [logger_seen EXCEPT ![proc] =
                                  [l \in Loggers |->
                                      [step |-> last_global_step_saved'[proc],
                                       filepath |-> last_checkpoint_saved'[proc]]]]
                      ELSE UNCHANGED <<logger_calls, logger_seen>>
    /\ calls' = calls + 1
    /\ UNCHANGED engineVars

\* the loop of _remove_checkpoint, lines 55-56, from its i-th directory on:
\* rmtree raises on a directory that does not exist, and the delete numbered
\* fail raises too
RECURSIVE remove_loop(_, _, _, _)
remove_loop(store, directories, i, fail) ==
    IF i > Len(directories)
    THEN [fs |-> store, attempts |-> <<>>, raised |-> "none"]
    ELSE IF store[directories[i]] = None
    THEN [fs |-> store, attempts |-> <<directories[i]>>, raised |-> "FileNotFoundError"]
    ELSE IF i = fail
    THEN [fs |-> store, attempts |-> <<directories[i]>>, raised |-> "OSError"]
    ELSE LET rest == remove_loop(rmtree(store, directories[i]), directories, i + 1, fail)
         IN  [rest EXCEPT !.attempts = <<directories[i]>> \o @]

\* ModelCheckpoint._remove_checkpoint(trainer, filepath)
remove_checkpoint(proc, filepath, fail) ==
    /\ calls < MaxCalls
    /\ LET r == remove_loop(fs, get_checkpoint_directories(filepath), 1, fail)
       IN  /\ fs' = r.fs
           /\ lastCall' = [op |-> "remove", proc |-> proc, filepath |-> filepath,
                           had |-> had_pair(fs, filepath),
                           attempts |-> r.attempts, raised |-> r.raised]
    /\ calls' = calls + 1
    /\ UNCHANGED <<last_global_step_saved, last_checkpoint_saved, logger_calls,
                   logger_seen>>
    /\ UNCHANGED engineVars

\* ------------------------------------------------------- specifications
\* the training engine of one process (the engines of different processes share
\* nothing), with no checkpoint call
InitTrain == InitEngine /\ InitCkpt /\ InitNoLoss

NextTrain ==
    \/ \E stage \in Stages :
        setup(Primary, stage) /\ UNCHANGED ckptVars /\ UNCHANGED timeVars
    \/ configure_optimizers(Primary) /\ UNCHANGED ckptVars /\ UNCHANGED timeVars
    \/ \E delta \in Deltas :
        /\ steps[Primary] < MaxSteps
        /\ training_step(Primary, delta)
        /\ UNCHANGED ckptVars /\ UNCHANGED timeVars
    \/ /\ steps[Primary] < MaxSteps
       /\ validation_step(Primary)
       /\ UNCHANGED ckptVars /\ UNCHANGED timeVars
    \/ /\ steps[Primary] < MaxSteps
       /\ predict_step(Primary)
       /\ UNCHANGED ckptVars /\ UNCHANGED timeVars

SpecTrain == InitTrain /\ [][NextTrain]_vars

\* the time sampling of one loss evaluation, over batch sizes and offsets
InitTime == InitEngine /\ InitCkpt /\ InitLoss

NextTime == loss_times

SpecTime == InitTime /\ [][NextTime]_vars

\* checkpointing during a fit: every process has run setup('fit') and
\* configure_optimizers, trains, and its ModelCheckpoint saves and removes
CkptCfg ==
    [shapes |-> [w |-> <<2, 2>>, b |-> <<2>>], ckpt_monitor_ema |-> FALSE,
     predict_sample_event_conditioned |-> FALSE]

InitFit ==
    LET ks == split(RootKey)
        p0 == model_init(ks[2], CkptCfg.shapes, 0)
    IN  /\ cfg = CkptCfg
        /\ key = [p \in Procs |-> ks[1]]
        /\ params = [p \in Procs |-> p0]
        /\ params_ema = [p \in Procs |-> p0]
        /\ opt_state = [p \in Procs |-> optimizer_init(p0)]
        /\ global_step = [p \in Procs |-> 0]
        /\ steps = [p \in Procs |-> 0]
        /\ keyLog = [p \in Procs |->
               << Ev("split", RootKey, "setup", 0, "setup"),
                  Ev("model_init", ks[2], "setup", 0, "setup") >>]
        /\ setupLog = [p \in Procs |-> << [stage |-> "fit", raised |-> "none"] >>]

Init == InitFit /\ InitCkpt /\ InitNoLoss

\* one process's callback on the store
Next ==
    \/ \E f \in FilePaths, fail \in 0..2 :
        save_checkpoint(Primary, f, fail) /\ UNCHANGED timeVars
    \/ \E f \in FilePaths, fail \in 0..2 :
        remove_checkpoint(Primary, f, fail) /\ UNCHANGED timeVars
    \/ \E delta \in Deltas :
        /\ global_step[Primary] < MaxGlobalStep
        /\ training_step(Primary, delta)
        /\ UNCHANGED ckptVars /\ UNCHANGED timeVars

Spec == Init /\ [][Next]_vars

\* several processes, each with its own trainer and callback, on one checkpoint path
SharedPath == Path("ckpts", <<"b", ".", "ckpt">>)

NextProcs ==
    \/ \E proc \in Procs, fail \in 0..2 :
        save_checkpoint(proc, SharedPath, fail) /\ UNCHANGED timeVars
    \/ \E proc \in Procs, fail \in 0..2 :
        remove_checkpoint(proc, SharedPath, fail) /\ UNCHANGED timeVars
    \/ \E proc \in Procs, delta \in Deltas :
        /\ global_step[proc] < MaxGlobalStep
        /\ training_step(proc, delta)
        /\ UNCHANGED ckptVars /\ UNCHANGED timeVars

SpecProcs == Init /\ [][NextProcs]_vars

\* ------------------------------------------------------------ properties
\* the directories the derivation rule gives a path: parent/stem and
\* parent/stem_ema, written out piece by piece
NameStem(name) ==
    IF Len(name) >= 3 /\ name[Len(name) - 1] = "."
    THEN SubSeq(name, 1, Len(name) - 2)
    ELSE name
RawDirOf(f) == [parent |-> f.parent, name |-> NameStem(f.name)]
EmaDirOf(f) == [parent |-> f.parent, name |-> Append(NameStem(f.name), "_ema")]
PairOf(f) == {RawDirOf(f), EmaDirOf(f)}

\* a save/remove call is made in this step; lastCall' describes it
CallStep == calls' = calls + 1

\* C1: once a save or remove call on a path has ended, successfully or with an
\* error, the raw directory of that path exists exactly when its EMA sibling does
C1_PairNeverPartial ==
    lastCall.op # "none" =>
        ((fs[RawDirOf(lastCall.filepath)] # None)
            <=> (fs[EmaDirOf(lastCall.filepath)] # None))

\* C2: every save call attempts both writes, the raw directory first and then the
\* EMA directory, whether or not the raw write failed
C2_BothWritesAttempted ==
    lastCall.op = "save" =>
        lastCall.attempts = <<RawDirOf(lastCall.filepath), EmaDirOf(lastCall.filepath)>>

\* C3: after a remove call on an existing pair has ended, normally or with an
\* error, the store does not show the raw directory gone and the EMA directory
\* still there
C3_RemoveNotTorn ==
    (lastCall.op = "remove" /\ lastCall.had) =>
        ~(/\ fs[RawDirOf(lastCall.filepath)] = None
          /\ fs[EmaDirOf(lastCall.filepath)] # None)

\* C4 as claimed: a remove of p that succeeds leaves neither directory of p, and
\* any remove of p leaves both directories of every saved path q with another
\* stem present and unchanged
C4_RemoveTouchesOnlyOwnPair_Original ==
    [][CallStep /\ lastCall'.op = "remove" =>
        /\ lastCall'.raised = "none" =>
              \A d \in PairOf(lastCall'.filepath) : fs'[d] = None
        /\ \A q \in FilePaths :
              (/\ NameStem(q.name) # NameStem(lastCall'.filepath.name)
               /\ \A d \in PairOf(q) : fs[d] # None)
              => \A d \in PairOf(q) : fs'[d] = fs[d]]_vars

\* C4, amended: a remove of p that succeeds leaves neither directory of p, and any
\* remove of p, first or repeated, leaves both directories of every saved path q
\* present and unchanged when q's pair shares no directory with p's pair, that is
\* when q's stem is not p's stem, not p's stem followed by _ema, and p's stem is
\* not q's stem followed by _ema
C4_RemoveTouchesOnlyOwnPair ==
    [][CallStep /\ lastCall'.op = "remove" =>
        /\ lastCall'.raised = "none" =>
              \A d \in PairOf(lastCall'.filepath) : fs'[d] = None
        /\ \A q \in FilePaths :
              (/\ PairOf(q) \cap PairOf(lastCall'.filepath) = {}
               /\ \A d \in PairOf(q) : fs[d] # None)
              => \A d \in PairOf(q) : fs'[d] = fs[d]]_vars

\* a remove of a saved pair has succeeded while another saved pair is in the store
C4_Witness ==
    /\ lastCall.op = "remove"
    /\ lastCall.had
    /\ lastCall.raised = "none"
    /\ \A d \in PairOf(lastCall.filepath) : fs[d] = None
    /\ \E q \in FilePaths :
          /\ PairOf(q) \cap PairOf(lastCall.filepath) = {}
          /\ \A d \in PairOf(q) : fs[d] # None

\* C5: when a save call succeeds, the raw directory holds exactly the params and
\* the EMA directory exactly the params_ema the process has at that call, whatever
\* the directories held before
C5_LatestSaveWins ==
    [][CallStep /\ lastCall'.op = "save" /\ lastCall'.raised = "none" =>
        /\ fs'[RawDirOf(lastCall'.filepath)] = params[lastCall'.proc]
        /\ fs'[EmaDirOf(lastCall'.filepath)] = params_ema[lastCall'.proc]]_vars

\* a save after a training step has replaced an existing pair, raw and EMA differing
C5_Witness ==
    /\ lastCall.op = "save"
    /\ lastCall.had
    /\ lastCall.raised = "none"
    /\ last_global_step_saved[Primary] = 1
    /\ global_step[Primary] = 1
    /\ params[Primary] # params_ema[Primary]
    /\ fs[RawDirOf(lastCall.filepath)] = params[Primary]
    /\ fs[EmaDirOf(lastCall.filepath)] = params_ema[Primary]

\* C6: a save that succeeds has written both directories, records the step and
\* the path, and makes exactly one after_save_checkpoint call to every logger of
\* the primary process, which sees that record, and none in another process; a
\* save that fails, a remove or a training step changes neither the record nor
\* any logger
C6_NotifyOncePrimaryOnly ==
    [][IF CallStep /\ lastCall'.op = "save" /\ lastCall'.raised = "none"
       THEN LET proc == lastCall'.proc
                f == lastCall'.filepath
            IN  /\ fs'[RawDirOf(f)] = params[proc]
                /\ fs'[EmaDirOf(f)] = params_ema[proc]
                /\ last_global_step_saved'[proc] = global_step[proc]
                /\ last_checkpoint_saved'[proc] = f
                /\ \A q \in Procs, l \in Loggers :
                      logger_calls'[q][l] =
                          logger_calls[q][l] + (IF q = proc /\ q = Primary THEN 1 ELSE 0)
                /\ \A q \in Procs, l \in Loggers :
                      IF q = proc /\ q = Primary
                      THEN logger_seen'[q][l] =
                               [step |-> global_step[proc], filepath |-> f]
                      ELSE logger_seen'[q][l] = logger_seen[q][l]
       ELSE /\ logger_calls' = logger_calls
            /\ logger_seen' = logger_seen
            /\ last_global_step_saved' = last_global_step_saved
            /\ last_checkpoint_saved' = last_checkpoint_saved]_vars

\* both processes have saved, a save has failed since, and only the primary's
\* loggers were called
C6_Witness ==
    /\ last_checkpoint_saved[Primary] = SharedPath
    /\ \E q \in Procs \ {Primary} : last_checkpoint_saved[q] = SharedPath
    /\ lastCall.op = "save"
    /\ lastCall.raised # "none"
    /\ \A l \in Loggers : logger_calls[Primary][l] = 1
    /\ \A q \in Procs \ {Primary}, l \in Loggers : logger_calls[q][l] = 0

\* C7: setup raises exactly for the stage names outside fit, validate, predict
C7_StageValidation ==
    \A i \in 1..Len(setupLog[Primary]) :
        (setupLog[Primary][i].raised # "none")
            <=> (setupLog[Primary][i].stage \notin {"fit", "validate", "predict"})

\* params and params_ema have the same layer names and the same shapes
SameStructure(t1, t2) ==
    /\ DOMAIN t1 = DOMAIN t2
    /\ \A k \in DOMAIN t1 : t1[k].shape = t2[k].shape

\* C8: once setup('fit') has run, params and params_ema have the same layer names
\* and shapes in every state, and the layer names and shapes are those of the
\* model; a setup('fit') leaves params_ema equal to params
C8_RawEmaSameStructure ==
    /\ [](params[Primary] # None =>
            /\ params_ema[Primary] # None
            /\ SameStructure(params[Primary], params_ema[Primary])
            /\ DOMAIN params[Primary] = DOMAIN cfg.shapes
            /\ \A k \in DOMAIN cfg.shapes : params[Primary][k].shape = cfg.shapes[k])
    /\ [][(/\ Len(setupLog'[Primary]) = Len(setupLog[Primary]) + 1
           /\ setupLog'[Primary][Len(setupLog'[Primary])].stage = "fit")
          => params_ema'[Primary] = params'[Primary]]_vars

\* two training steps on a model of two layers have moved params away from params_ema
C8_Witness ==
    /\ global_step[Primary] = 2
    /\ params[Primary] # None
    /\ DOMAIN params[Primary] = {"w", "b"}
    /\ params[Primary] # params_ema[Primary]

RatLess(x, y) == x.n * y.d < y.n * x.d
RatLeq(x, y) == x.n * y.d <= y.n * x.d

\* the fixed-stride rule: frac(offset + i/n), i = 0..n-1
FixedStride(offset, n) ==
    [i \in 1..n |-> LET x == RatAdd(offset, Rat(i - 1, n)) IN Rat(x.n % x.d, x.d)]

\* C9: the time fractions loss builds are frac(u0 + i/N), i = 0..N-1, and every
\* stratum [k/N, (k+1)/N) holds exactly one of them
C9_StratifiedTimes ==
    u # <<>> =>
        /\ u = FixedStride(u0, x_batch)
        /\ \A k \in 0..(x_batch - 1) :
              Cardinality({i \in 1..x_batch :
                  /\ RatLeq(Rat(k, x_batch), u[i])
                  /\ RatLess(u[i], Rat(k + 1, x_batch))}) = 1

\* the key a key was split from
ParentKey(k) == SubSeq(k, 1, Len(k) - 1)

\* every key that is drawn from was produced by an earlier split
DrawsAreSplitProducts(log) ==
    \A i \in 1..Len(log) :
        log[i].op # "split" =>
            /\ Len(log[i].key) > 0
            /\ \E j \in 1..(i - 1) :
                  log[j].op = "split" /\ log[j].key = ParentKey(log[i].key)

\* C10 as claimed: every key drawn from was produced by a split, and no key is
\* used twice, for a split or for a draw
C10_SplitBeforeUse_Original ==
    LET log == keyLog[Primary]
    IN  /\ DrawsAreSplitProducts(log)
        /\ \A i, j \in 1..Len(log) : i < j => log[i].key # log[j].key

\* C10, amended: every key drawn from was produced by a split; self.key is always
\* a key that was never used; and a key is used twice only inside one
\* training_step, where the loss evaluation on params_ema repeats on key_train
\* the use that step's loss made of the same key
C10_SplitBeforeUse ==
    LET log == keyLog[Primary]
    IN  /\ DrawsAreSplitProducts(log)
        /\ \A i \in 1..Len(log) : log[i].key # key[Primary]
        /\ \A i, j \in 1..Len(log) :
              (i < j /\ log[i].key = log[j].key) =>
                  /\ log[i].handler = "training_step"
                  /\ log[j].handler = "training_step"
                  /\ log[i].n = log[j].n
                  /\ log[i].phase = "step"
                  /\ log[j].phase = "loss_ema"
                  /\ log[i].op = log[j].op

\* a training step and a sampling validation step have both used keys
C10_Witness ==
    LET log == keyLog[Primary]
    IN  /\ \E i \in 1..Len(log) : log[i].phase = "loss_ema"
        /\ \E i \in 1..Len(log) : log[i].op = "sde_sample"
        /\ \E i \in 1..Len(log) : log[i].op = "model_init"

====
